---- MODULE Spec2Model ----
(***************************************************************************)
(* A model of the hnfen crate (src/src/lib.rs, moves.rs, types.rs): the    *)
(* 11x11 Tafl board, the HNFEN board notation, move generation and move    *)
(* application with capture resolution.                                    *)
(***************************************************************************)
EXTENDS Integers, Sequences, FiniteSets, TLC

VARIABLES
    board,    \* the Board value: [ranks, next]
    ret,      \* the last library call and what it returned
    applied,  \* number of Board::apply calls made on this board
    input     \* the text the caller hands to the decoders

vars == <<board, ret, applied, input>>

----------------------------------------------------------------------------
(* Bounds of the exploration *)

\* at most this many Board::apply calls are made on one board
MaxApplied == 1

\* scenario boards hold at most this many pieces
MaxPieces == 3

\* rank texts handed to the decoders hold at most this many characters
MaxRankLen == 4

\* board texts handed to the decoders hold at most this many ranks
MaxRanks == 12

\* the ranks handed to the encoders hold at most this many pieces
MaxRankPieces == 2

----------------------------------------------------------------------------
(* types.rs: Player, Piece, Rank, Board *)

\* number of ranks of a board and of fields of a rank
Size == 11

Idx == 0 .. (Size - 1)

Black == "Black"
White == "White"
Player == {Black, White}

None == "None"
King == "King"

Normal(c) == IF c = Black THEN "NormalBlack" ELSE "NormalWhite"

Piece == {Normal(Black), Normal(White), King}

opposite(c) == IF c = Black THEN White ELSE Black

color(p) == IF p = King THEN White ELSE IF p = Normal(Black) THEN Black ELSE White

\* Rank { fields: [None; 11] }
DefaultRank == [fields |-> [x \in Idx |-> None]]

----------------------------------------------------------------------------
(* moves.rs: Position, Move, Direction, special cells *)

Columns == <<"a", "b", "c", "d", "e", "f", "g", "h", "i", "j", "k">>

from_indices(x, y) == [column |-> Columns[x + 1], rank |-> Size - y]

\* column as u8 - b'a', for the columns of the board
ColumnIndex == [c \in {Columns[i] : i \in 1 .. Size} |-> CHOOSE i \in Idx : Columns[i + 1] = c]

\* 11 - self.rank leaves the range of u8: a build with overflow checks
\* aborts in the subtraction, a build without them wraps
to_indices_overflows(pos) == pos.rank > Size

\* Position::to_indices as a build without overflow checks computes it
to_indices(pos) == << ColumnIndex[pos.column], (Size - pos.rank) % 256 >>

Move(from, to) == [from |-> from, to |-> to]

card == <<"Up", "Down", "Left", "Right">>

vector(dir, length) ==
    CASE dir = "Up"    -> << 0 - length, 0 >>
      [] dir = "Down"  -> << length, 0 >>
      [] dir = "Left"  -> << 0, 0 - length >>
      [] dir = "Right" -> << 0, length >>

is_corner(x, y) ==
    \/ x = 0 /\ y = 0
    \/ x = 0 /\ y = 10
    \/ x = 10 /\ y = 0
    \/ x = 10 /\ y = 10

is_castle(x, y) == is_corner(x, y) \/ (x = 5 /\ y = 5)

\* in_board with the last column and rank left out
in_board_short(x, y) == (0 <= x /\ x < 10) /\ (0 <= y /\ y < 10)

in_board(x, y) == (0 <= x /\ x < 11) /\ (0 <= y /\ y < 11)

----------------------------------------------------------------------------
(* types.rs: Board queries *)

get(b, pos) ==
    LET i == to_indices(pos) IN b.ranks[i[2]].fields[i[1]]

set(b, pos, piece) ==
    LET i == to_indices(pos)
    IN  [b EXCEPT !.ranks[i[2]].fields[i[1]] = piece]

\* piecesOfRank without the King arm of the match
RECURSIVE piecesOfRank_noKing(_, _, _, _)
piecesOfRank_noKing(b, c, y, x) ==
    IF x = Size THEN << >>
    ELSE LET piece == b.ranks[y].fields[x]
             here == IF piece \in {Normal(Black), Normal(White)} /\ color(piece) = c
                        THEN << from_indices(x, y) >>
                     ELSE << >>
         IN  here \o piecesOfRank_noKing(b, c, y, x + 1)

\* inner loop of Board::pieces: the fields x.. of rank y
RECURSIVE piecesOfRank(_, _, _, _)
piecesOfRank(b, c, y, x) ==
    IF x = Size THEN << >>
    ELSE LET piece == b.ranks[y].fields[x]
             here == IF piece \in {Normal(Black), Normal(White)} /\ color(piece) = c
                        THEN << from_indices(x, y) >>
                     ELSE IF piece = King /\ c = White
                        THEN << from_indices(x, y) >>
                     ELSE << >>
         IN  here \o piecesOfRank(b, c, y, x + 1)

\* outer loop of Board::pieces: the ranks y..
RECURSIVE piecesFrom(_, _, _)
piecesFrom(b, c, y) ==
    IF y = Size THEN << >>
    ELSE piecesOfRank(b, c, y, 0) \o piecesFrom(b, c, y + 1)

pieces(b, c) == piecesFrom(b, c, 0)

\* is_king_capture taking an empty neighbour for a hostile one
is_king_capture_emptyHostile(b, pos) ==
    LET p == to_indices(pos)
    IN  \A d \in 1 .. 4 :
            LET dir_diff == vector(card[d], 1)
                cx == p[1] + dir_diff[1]
                cy == p[2] + dir_diff[2]
            IN  /\ in_board(cx, cy)
                /\ \/ is_castle(cx, cy)
                   \/ LET q == get(b, from_indices(cx, cy))
                      IN  q = None \/ color(q) # White

\* true if a king at position pos would be captured
is_king_capture(b, pos) ==
    LET p == to_indices(pos)
    IN  \A d \in 1 .. 4 :
            LET dir_diff == vector(card[d], 1)
                cx == p[1] + dir_diff[1]
                cy == p[2] + dir_diff[2]
            IN  /\ in_board(cx, cy)
                /\ \/ is_castle(cx, cy)
                   \/ LET q == get(b, from_indices(cx, cy))
                      IN  q # None /\ color(q) # White

\* applyDir with the King not counted as a piece of the mover's side
applyDir_kingNotOwn(b, x, y, move_color, dir) ==
    LET dir_diff == vector(dir, 1)
        cx == x + dir_diff[1]
        cy == y + dir_diff[2]
    IN  IF ~in_board(cx, cy) THEN b
        ELSE
        LET other == get(b, from_indices(cx, cy))
            take_normal == other \in {Normal(Black), Normal(White)} /\ color(other) # move_color
            other_is_king == other = King /\ move_color = Black
            ox == cx + dir_diff[1]
            oy == cy + dir_diff[2]
        IN  IF ~(take_normal \/ other_is_king) THEN b
            ELSE IF ~in_board(ox, oy) THEN b
            ELSE IF other_is_king
                THEN IF is_king_capture(b, from_indices(cx, cy))
                        THEN set(b, from_indices(cx, cy), None)
                        ELSE b
            ELSE LET p == get(b, from_indices(ox, oy))
                 IN  IF p = Normal(move_color)
                        THEN set(b, from_indices(cx, cy), None)
                        ELSE b

\* applyDir turning a flanked normal piece into a piece of the mover's side
applyDir_convert(b, x, y, move_color, dir) ==
    LET dir_diff == vector(dir, 1)
        cx == x + dir_diff[1]
        cy == y + dir_diff[2]
    IN  IF ~in_board(cx, cy) THEN b
        ELSE
        LET other == get(b, from_indices(cx, cy))
            take_normal == other \in {Normal(Black), Normal(White)} /\ color(other) # move_color
            other_is_king == other = King /\ move_color = Black
            ox == cx + dir_diff[1]
            oy == cy + dir_diff[2]
        IN  IF ~(take_normal \/ other_is_king) THEN b
            ELSE IF ~in_board(ox, oy) THEN b
            ELSE IF other_is_king
                THEN IF is_king_capture(b, from_indices(cx, cy))
                        THEN set(b, from_indices(cx, cy), None)
                        ELSE b
            ELSE LET p == get(b, from_indices(ox, oy))
                 IN  IF p # None /\ color(p) = move_color
                        THEN set(b, from_indices(cx, cy), Normal(move_color))
                        ELSE b

\* applyDir taking a flanked piece of either side
applyDir_anySide(b, x, y, move_color, dir) ==
    LET dir_diff == vector(dir, 1)
        cx == x + dir_diff[1]
        cy == y + dir_diff[2]
    IN  IF ~in_board(cx, cy) THEN b
        ELSE
        LET other == get(b, from_indices(cx, cy))
            take_normal == other \in {Normal(Black), Normal(White)}
            other_is_king == other = King /\ move_color = Black
            ox == cx + dir_diff[1]
            oy == cy + dir_diff[2]
        IN  IF ~(take_normal \/ other_is_king) THEN b
            ELSE IF ~in_board(ox, oy) THEN b
            ELSE IF other_is_king
                THEN IF is_king_capture(b, from_indices(cx, cy))
                        THEN set(b, from_indices(cx, cy), None)
                        ELSE b
            ELSE LET p == get(b, from_indices(ox, oy))
                 IN  IF p # None /\ color(p) = move_color
                        THEN set(b, from_indices(cx, cy), None)
                        ELSE b

\* applyDir clearing the cell beyond the flanked piece as well
applyDir_clearBeyond(b, x, y, move_color, dir) ==
    LET dir_diff == vector(dir, 1)
        cx == x + dir_diff[1]
        cy == y + dir_diff[2]
    IN  IF ~in_board(cx, cy) THEN b
        ELSE
        LET other == get(b, from_indices(cx, cy))
            take_normal == other \in {Normal(Black), Normal(White)} /\ color(other) # move_color
            other_is_king == other = King /\ move_color = Black
            ox == cx + dir_diff[1]
            oy == cy + dir_diff[2]
        IN  IF ~(take_normal \/ other_is_king) THEN b
            ELSE IF ~in_board(ox, oy) THEN b
            ELSE IF other_is_king
                THEN IF is_king_capture(b, from_indices(cx, cy))
                        THEN set(b, from_indices(cx, cy), None)
                        ELSE b
            ELSE LET p == get(b, from_indices(ox, oy))
                 IN  IF p # None /\ color(p) = move_color
                        THEN set(set(b, from_indices(cx, cy), None),
                                 from_indices(ox, oy), None)
                        ELSE b

\* one iteration of the capture loop of Board::apply, for direction dir
applyDir(b, x, y, move_color, dir) ==
    LET dir_diff == vector(dir, 1)
        cx == x + dir_diff[1]
        cy == y + dir_diff[2]
    IN  IF ~in_board(cx, cy) THEN b
        ELSE
        LET other == get(b, from_indices(cx, cy))
            take_normal == other \in {Normal(Black), Normal(White)} /\ color(other) # move_color
            other_is_king == other = King /\ move_color = Black
            ox == cx + dir_diff[1]
            oy == cy + dir_diff[2]
        IN  IF ~(take_normal \/ other_is_king) THEN b
            ELSE IF ~in_board(ox, oy) THEN b
            ELSE IF other_is_king
                THEN IF is_king_capture(b, from_indices(cx, cy))
                        THEN set(b, from_indices(cx, cy), None)
                        ELSE b
            ELSE LET p == get(b, from_indices(ox, oy))
                 IN  IF p # None /\ color(p) = move_color
                        THEN set(b, from_indices(cx, cy), None)
                        ELSE b

\* relocate leaving the piece on `from` as well
relocate_keepFrom(b, mov) ==
    LET f == to_indices(mov.from)
        piece == b.ranks[f[2]].fields[f[1]]
        move_color == color(piece)
        t == to_indices(mov.to)
        b1 == [b EXCEPT !.ranks[t[2]].fields[t[1]] = piece]
        b2 == applyDir(b1, t[1], t[2], move_color, card[1])
        b3 == applyDir(b2, t[1], t[2], move_color, card[2])
        b4 == applyDir(b3, t[1], t[2], move_color, card[3])
    IN  applyDir(b4, t[1], t[2], move_color, card[4])

\* Board::apply from the relocation to the end of the capture loop, for a move
\* whose `from` holds a piece
relocate(b, mov) ==
    LET f == to_indices(mov.from)
        piece == b.ranks[f[2]].fields[f[1]]
        move_color == color(piece)
        t == to_indices(mov.to)
        b0 == [b EXCEPT !.ranks[f[2]].fields[f[1]] = None]
        b1 == [b0 EXCEPT !.ranks[t[2]].fields[t[1]] = piece]
        b2 == applyDir(b1, t[1], t[2], move_color, card[1])
        b3 == applyDir(b2, t[1], t[2], move_color, card[2])
        b4 == applyDir(b3, t[1], t[2], move_color, card[3])
    IN  applyDir(b4, t[1], t[2], move_color, card[4])

\* apply passing the turn to the opposite of the side that was to move
apply_flipNext(b, mov) ==
    LET f == to_indices(mov.from)
        piece == b.ranks[f[2]].fields[f[1]]
    IN  IF piece = None THEN b
        ELSE [relocate(b, mov) EXCEPT !.next = opposite(b.next)]

\* apply passing the turn also when `from` is empty
apply_emptyFlips(b, mov) ==
    LET f == to_indices(mov.from)
        piece == b.ranks[f[2]].fields[f[1]]
    IN  IF piece = None THEN [b EXCEPT !.next = opposite(b.next)]
        ELSE [relocate(b, mov) EXCEPT !.next = opposite(color(piece))]

\* Board::apply: the board after the call
apply(b, mov) ==
    LET f == to_indices(mov.from)
        piece == b.ranks[f[2]].fields[f[1]]
    IN  IF piece = None THEN b
        ELSE [relocate(b, mov) EXCEPT !.next = opposite(color(piece))]

----------------------------------------------------------------------------
(* moves.rs: possible_moves *)

\* scan stopping at the castle instead of passing over it
RECURSIVE scan_noPass(_, _, _, _, _)
scan_noPass(b, own_location, is_king, dir, length) ==
    IF length > 10 THEN << >>
    ELSE
    LET curr == to_indices(own_location)
        diff == vector(dir, length)
        new_x == curr[1] + diff[1]
        new_y == curr[2] + diff[2]
    IN  IF ~in_board(new_x, new_y) THEN << >>
        ELSE IF ~is_king /\ is_corner(new_x, new_y) THEN << >>
        ELSE IF ~is_king /\ new_x = 5 /\ new_y = 5
            THEN << >>
        ELSE IF get(b, from_indices(new_x, new_y)) # None THEN << >>
        ELSE << Move(own_location, from_indices(new_x, new_y)) >>
                \o scan_noPass(b, own_location, is_king, dir, length + 1)

\* scan letting a piece that is not the King land on the castle
RECURSIVE scan_landCastle(_, _, _, _, _)
scan_landCastle(b, own_location, is_king, dir, length) ==
    IF length > 10 THEN << >>
    ELSE
    LET curr == to_indices(own_location)
        diff == vector(dir, length)
        new_x == curr[1] + diff[1]
        new_y == curr[2] + diff[2]
    IN  IF ~in_board(new_x, new_y) THEN << >>
        ELSE IF ~is_king /\ is_corner(new_x, new_y) THEN << >>
        ELSE IF get(b, from_indices(new_x, new_y)) # None THEN << >>
        ELSE << Move(own_location, from_indices(new_x, new_y)) >>
                \o scan_landCastle(b, own_location, is_king, dir, length + 1)

\* the body of the `for length in 1..=10` loop, from length on
RECURSIVE scan(_, _, _, _, _)
scan(b, own_location, is_king, dir, length) ==
    IF length > 10 THEN << >>
    ELSE
    LET curr == to_indices(own_location)
        diff == vector(dir, length)
        new_x == curr[1] + diff[1]
        new_y == curr[2] + diff[2]
    IN  IF ~in_board(new_x, new_y) THEN << >>
        ELSE IF ~is_king /\ is_corner(new_x, new_y) THEN << >>
        ELSE IF ~is_king /\ new_x = 5 /\ new_y = 5
            THEN scan(b, own_location, is_king, dir, length + 1)
        ELSE IF get(b, from_indices(new_x, new_y)) # None THEN << >>
        ELSE << Move(own_location, from_indices(new_x, new_y)) >>
                \o scan(b, own_location, is_king, dir, length + 1)

\* movesOfPiece without the last direction
movesOfPiece_threeDirs(b, own_location) ==
    LET is_king == get(b, own_location) = King
    IN  scan(b, own_location, is_king, card[1], 1)
        \o scan(b, own_location, is_king, card[2], 1)
        \o scan(b, own_location, is_king, card[3], 1)

movesOfPiece(b, own_location) ==
    LET is_king == get(b, own_location) = King
    IN  scan(b, own_location, is_king, card[1], 1)
        \o scan(b, own_location, is_king, card[2], 1)
        \o scan(b, own_location, is_king, card[3], 1)
        \o scan(b, own_location, is_king, card[4], 1)

RECURSIVE movesOfPieces(_, _, _)
movesOfPieces(b, own_pieces, i) ==
    IF i > Len(own_pieces) THEN << >>
    ELSE movesOfPiece(b, own_pieces[i]) \o movesOfPieces(b, own_pieces, i + 1)

possible_moves(b) == movesOfPieces(b, pieces(b, b.next), 1)

----------------------------------------------------------------------------
(* types.rs: decoding of the HNFEN notation.  A text is a sequence of      *)
(* one-character strings.  A decoder returns Some(value), None, or it      *)
(* panics (an index out of bounds, an unwrap of a failure).                *)

Some(v) == [tag |-> "Some", val |-> v]
NoneResult == [tag |-> "None"]
Panic == [tag |-> "Panic"]

BLACK == "a"
WHITE == "h"
KING == "K"
RANK_SEP == "/"

Digits == <<"0", "1", "2", "3", "4", "5", "6", "7", "8", "9">>

is_numeric(k) == \E i \in 1 .. 10 : Digits[i] = k

to_digit(k) == (CHOOSE i \in 1 .. 10 : Digits[i] = k) - 1

Player_from_hnfen(hnfen) ==
    IF hnfen = << BLACK >> THEN Some(Black)
    ELSE IF hnfen = << WHITE >> THEN Some(White)
    ELSE NoneResult

Piece_from_hnfen(k) ==
    IF k = BLACK THEN Some(Normal(Black))
    ELSE IF k = WHITE THEN Some(Normal(White))
    ELSE IF k = KING THEN Some(King)
    ELSE NoneResult

\* first loop of Rank::from_hnfen: the groups of the text, or None
RECURSIVE rankGroups(_, _, _)
rankGroups(hnfen, i, groups) ==
    IF i > Len(hnfen) THEN Some(groups)
    ELSE
    LET k == hnfen[i]
        n == Len(groups)
    IN  IF is_numeric(k)
            THEN IF n > 0 /\ groups[n].number
                    THEN rankGroups(hnfen, i + 1,
                            [groups EXCEPT ![n].count = groups[n].count * 10 + to_digit(k)])
                    ELSE rankGroups(hnfen, i + 1,
                            Append(groups, [number |-> TRUE, count |-> to_digit(k), piece |-> None]))
        ELSE LET p == Piece_from_hnfen(k)
             IN  IF p.tag = "None" THEN NoneResult
                 ELSE rankGroups(hnfen, i + 1,
                        Append(groups, [number |-> FALSE, count |-> 0, piece |-> p.val]))

\* second loop of Rank::from_hnfen: place the groups, then check the length
RECURSIVE rankPlace(_, _, _, _)
rankPlace(groups, g, rank, c_index) ==
    IF g > Len(groups)
        THEN IF c_index # Size THEN NoneResult ELSE Some(rank)
    ELSE IF groups[g].number
        THEN rankPlace(groups, g + 1, rank, c_index + groups[g].count)
    ELSE IF c_index >= Size
        THEN Panic
    ELSE rankPlace(groups, g + 1,
            [rank EXCEPT !.fields[c_index] = groups[g].piece], c_index + 1)

Rank_from_hnfen(hnfen) ==
    LET groups == rankGroups(hnfen, 1, << >>)
    IN  IF groups.tag = "None" THEN NoneResult
        ELSE rankPlace(groups.val, 1, DefaultRank, 0)

\* str::split(sep): the pieces between separators, empty ones included
RECURSIVE split(_, _, _, _)
split(text, sep, i, cur) ==
    IF i > Len(text) THEN << cur >>
    ELSE IF text[i] = sep THEN << cur >> \o split(text, sep, i + 1, << >>)
    ELSE split(text, sep, i + 1, Append(cur, text[i]))

\* str::split_whitespace: the non-empty pieces between runs of whitespace
split_whitespace(text) ==
    SelectSeq(split(text, " ", 1, << >>), LAMBDA w : w # << >>)

\* .map(Rank::from_hnfen).collect::<Option<Vec<Rank>>>()
RECURSIVE collectRanks(_, _, _)
collectRanks(texts, i, acc) ==
    IF i > Len(texts) THEN Some(acc)
    ELSE LET r == Rank_from_hnfen(texts[i])
         IN  IF r.tag = "Some" THEN collectRanks(texts, i + 1, Append(acc, r.val))
             ELSE r

Board_from_hnfen(hnfen) ==
    LET splits == split_whitespace(hnfen)
    IN  IF Len(splits) = 0 THEN Panic
        ELSE
        LET rs == collectRanks(split(splits[1], RANK_SEP, 1, << >>), 1, << >>)
        IN  IF rs.tag # "Some" THEN rs
            ELSE IF Len(rs.val) # Size THEN Panic
            ELSE
            LET side == IF Len(splits) >= 2 THEN Player_from_hnfen(splits[2]) ELSE Some(Black)
            IN  IF side.tag = "None" THEN NoneResult
                ELSE Some([ranks |-> [y \in Idx |-> rs.val[y + 1]], next |-> side.val])

----------------------------------------------------------------------------
(* lib.rs *)

DEFAULT_START_HNFEN ==
    <<"3", "a", "a", "a", "a", "a", "3", "/", "5", "a", "5", "/", "1", "1", "/",
      "a", "4", "h", "4", "a", "/", "a", "3", "h", "h", "h", "3", "a", "/",
      "a", "a", "1", "h", "h", "K", "h", "h", "1", "a", "a", "/",
      "a", "3", "h", "h", "h", "3", "a", "/", "a", "4", "h", "4", "a", "/",
      "1", "1", "/", "5", "a", "5", "/", "3", "a", "a", "a", "a", "a", "3", " ", "a">>

\* impl Default for Board
DefaultBoard == Board_from_hnfen(DEFAULT_START_HNFEN).val

----------------------------------------------------------------------------
(* types.rs, moves.rs: encoding to the HNFEN notation, and Move::from_hnfen *)

\* format!("{}", n) printing only the last digit of n
decimal_lastDigit(n) == << Digits[(n % 10) + 1] >>

\* format!("{}", n) for an unsigned n
RECURSIVE decimal(_)
decimal(n) ==
    IF n < 10 THEN << Digits[n + 1] >>
    ELSE decimal(n \div 10) \o << Digits[(n % 10) + 1] >>

Player_as_hnfen(p) == IF p = Black THEN << BLACK >> ELSE << WHITE >>

Piece_as_hnfen(p) ==
    IF p = Normal(Black) THEN << BLACK >>
    ELSE IF p = Normal(White) THEN << WHITE >>
    ELSE << KING >>

\* the loop of Rank::as_hnfen from field x on, and the trailing count
RECURSIVE rankText(_, _, _)
rankText(rank, x, empty_prec) ==
    IF x = Size
        THEN IF empty_prec > 0 THEN decimal(empty_prec) ELSE << >>
    ELSE IF rank.fields[x] # None
        THEN (IF empty_prec > 0 THEN decimal(empty_prec) ELSE << >>)
             \o Piece_as_hnfen(rank.fields[x]) \o rankText(rank, x + 1, 0)
    ELSE rankText(rank, x + 1, empty_prec + 1)

Rank_as_hnfen(rank) == rankText(rank, 0, 0)

\* [String]::join(sep), from the i-th text on
RECURSIVE join(_, _, _)
join(texts, sep, i) ==
    IF i > Len(texts) THEN << >>
    ELSE IF i = Len(texts) THEN texts[i]
    ELSE texts[i] \o << sep >> \o join(texts, sep, i + 1)

Board_as_hnfen(b) ==
    join([i \in 1 .. Size |-> Rank_as_hnfen(b.ranks[i - 1])], RANK_SEP, 1)
        \o << " " >> \o Player_as_hnfen(b.next)

\* impl Display for Position
Position_fmt(pos) == << pos.column >> \o decimal(pos.rank)

Move_as_hnfen(mov) == Position_fmt(mov.from) \o Position_fmt(mov.to)

\* [a-k]
is_column(k) == \E i \in 1 .. Size : Columns[i] = k

\* \d{1,2} at index i of the text: the number of digits it takes
digitsAt(hnfen, i) ==
    IF i <= Len(hnfen) /\ is_numeric(hnfen[i])
        THEN IF i + 1 <= Len(hnfen) /\ is_numeric(hnfen[i + 1]) THEN 2 ELSE 1
        ELSE 0

\* move_re.captures(hnfen): the four groups of the match, or None
captures(hnfen) ==
    IF Len(hnfen) < 1 \/ ~is_column(hnfen[1]) THEN NoneResult
    ELSE
    LET n1 == digitsAt(hnfen, 2)
        j == 2 + n1
    IN  IF n1 = 0 \/ j > Len(hnfen) \/ ~is_column(hnfen[j]) THEN NoneResult
        ELSE
        LET n2 == digitsAt(hnfen, j + 1)
        IN  IF n2 = 0 \/ j + n2 # Len(hnfen) THEN NoneResult
            ELSE Some(<< hnfen[1], SubSeq(hnfen, 2, j - 1),
                         hnfen[j], SubSeq(hnfen, j + 1, j + n2) >>)

\* str::parse::<u8>() of a text of digits, .ok()
RECURSIVE parse_u8(_, _, _)
parse_u8(digits, i, acc) ==
    IF acc > 255 THEN NoneResult
    ELSE IF i > Len(digits) THEN Some(acc)
    ELSE parse_u8(digits, i + 1, acc * 10 + to_digit(digits[i]))

Move_from_hnfen(hnfen) ==
    LET cap == captures(hnfen)
    IN  IF cap.tag = "None" THEN Panic
        ELSE
        LET from_rank == parse_u8(cap.val[2], 1, 0)
            to_rank == parse_u8(cap.val[4], 1, 0)
        IN  IF from_rank.tag = "None" \/ to_rank.tag = "None" THEN NoneResult
            ELSE Some(Move([column |-> cap.val[1], rank |-> from_rank.val],
                           [column |-> cap.val[3], rank |-> to_rank.val]))

----------------------------------------------------------------------------
(* types.rs: Board::king and Board::king_escaped *)

\* the inner loop of Board::king over the fields of rank y, from field x on
RECURSIVE kingOfRank(_, _, _)
kingOfRank(b, y, x) ==
    IF x = Size THEN NoneResult
    ELSE IF b.ranks[y].fields[x] = King THEN Some(from_indices(x, y))
    ELSE kingOfRank(b, y, x + 1)

\* the outer loop of Board::king, from rank y on
RECURSIVE kingFrom(_, _)
kingFrom(b, y) ==
    IF y = Size THEN NoneResult
    ELSE LET found == kingOfRank(b, y, 0)
         IN  IF found.tag = "Some" THEN found ELSE kingFrom(b, y + 1)

\* Board::king: the position of the first King in rank order, if any
king(b) == kingFrom(b, 0)

\* king_escaped taking the castle for an escape cell as well
king_escaped_castle(b) ==
    LET pos == king(b)
    IN  IF pos.tag = "Some"
            THEN is_castle(to_indices(pos.val)[1], to_indices(pos.val)[2])
            ELSE FALSE

\* Board::king_escaped
king_escaped(b) ==
    LET pos == king(b)
    IN  IF pos.tag = "Some"
            THEN is_corner(to_indices(pos.val)[1], to_indices(pos.val)[2])
            ELSE FALSE

----------------------------------------------------------------------------
(* The boards the exploration starts from *)

\* cells (x, y) that scenario boards may populate
Region == { <<0, 5>>, <<3, 5>>, <<4, 5>>, <<5, 5>>, <<4, 3>>, <<4, 4>> }

\* cells (x, y) on which the king scenes put the King
KingSpots == { <<0, 5>>, <<3, 5>>, <<4, 5>> }

\* the on-board cells orthogonally adjacent to cell c
Neighbours(c) ==
    { n \in Idx \X Idx : \E d \in 1 .. 4 :
        n = << c[1] + vector(card[d], 1)[1], c[2] + vector(card[d], 1)[2] >> }

\* the board holding piece f[c] on every cell c of S and nothing elsewhere
Placed(S, f) ==
    [ranks |-> [y \in Idx |-> [fields |-> [x \in Idx |->
                    IF <<x, y>> \in S THEN f[<<x, y>>] ELSE None]]],
     next |-> Black]

\* at most MaxPieces pieces, at most one of them a King, on cells of Region
RegionBoards ==
    UNION { { Placed(S, f) : f \in { g \in [S -> Piece] :
                                     Cardinality({c \in S : g[c] = King}) <= 1 } } :
            S \in { T \in SUBSET Region : Cardinality(T) <= MaxPieces } }

\* a King on a king spot, anything but a King on each of its neighbours, and
\* at most one attacker on a further cell of Region
KingScenes ==
    UNION { UNION { { Placed({k} \cup Neighbours(k) \cup O,
                             [c \in {k} \cup Neighbours(k) \cup O |->
                                 IF c = k THEN King
                                 ELSE IF c \in O THEN Normal(Black)
                                 ELSE f[c]]) :
                      f \in [Neighbours(k) -> {None, Normal(Black), Normal(White)}] } :
                    O \in { T \in SUBSET (Region \ ({k} \cup Neighbours(k))) :
                            Cardinality(T) <= 1 } } :
            k \in KingSpots }

\* the board texts of tests::get_moves_for_default
TestTexts ==
    { <<"1", "1", "/", "1", "1", "/", "1", "1", "/", "1", "1", "/", "1", "1", "/",
        "1", "1", "/", "1", "1", "/", "1", "1", "/", "1", "1", "/", "1", "1", "/", "1", "1">>,
      <<"h", "1", "0", "/", "1", "1", "/", "1", "1", "/", "1", "1", "/", "1", "1", "/",
        "1", "1", "/", "1", "1", "/", "1", "1", "/", "1", "1", "/", "1", "1", "/", "1", "1",
        " ", "h">>,
      <<"a", "1", "0", "/", "1", "1", "/", "1", "1", "/", "1", "1", "/", "1", "1", "/",
        "1", "1", "/", "1", "1", "/", "1", "1", "/", "1", "1", "/", "1", "1", "/", "1", "1">>,
      <<"1", "1", "/", "1", "1", "/", "1", "1", "/", "1", "1", "/", "h", "1", "0", "/",
        "a", "1", "0", "/", "h", "1", "0", "/", "1", "1", "/", "1", "1", "/", "1", "1", "/",
        "1", "1">>,
      <<"1", "1", "/", "1", "1", "/", "1", "1", "/", "1", "1", "/", "a", "1", "0", "/",
        "h", "1", "0", "/", "a", "1", "0", "/", "1", "1", "/", "1", "1", "/", "1", "1", "/",
        "1", "1", " ", "h">>,
      <<"1", "1", "/", "1", "1", "/", "1", "1", "/", "1", "1", "/", "a", "1", "0", "/",
        "K", "1", "0", "/", "a", "1", "0", "/", "1", "1", "/", "1", "1", "/", "1", "1", "/",
        "1", "1", " ", "h">> }

TestBoards == { Board_from_hnfen(t).val : t \in TestTexts }

\* a lone King on each cell of the board
KingBoards == { Placed({c}, [d \in {c} |-> King]) : c \in Idx \X Idx }

\* the cell the capture scenes are built around, and the attacker that may
\* move onto it along its rank
CaptureSpot == <<4, 4>>
CaptureMover == <<1, 4>>

\* the four cells next to the capture spot and the four cells behind them
CaptureRing ==
    { c \in Idx \X Idx :
        \/ c[1] = CaptureSpot[1] /\ c[2] - CaptureSpot[2] \in {-2, -1, 1, 2}
        \/ c[2] = CaptureSpot[2] /\ c[1] - CaptureSpot[1] \in {-2, -1, 1, 2} }

\* an attacker three cells from the empty capture spot; on each cell next to
\* the spot a defender or nothing, on each cell behind an attacker or nothing
CaptureScenes ==
    { Placed(CaptureRing \cup {CaptureMover},
             [c \in CaptureRing \cup {CaptureMover} |->
                IF c = CaptureMover \/ c \in B THEN Normal(Black)
                ELSE IF c \in W THEN Normal(White)
                ELSE None]) :
        W \in SUBSET Neighbours(CaptureSpot),
        B \in SUBSET (CaptureRing \ Neighbours(CaptureSpot)) }

StartBoards ==
    {DefaultBoard} \cup TestBoards \cup RegionBoards \cup KingScenes \cup KingBoards
        \cup CaptureScenes

\* the characters of the rank texts: the occupants, some digits, and a
\* character that is no occupant
RankAlphabet == { BLACK, WHITE, KING, "0", "1", "9", "x" }

\* every text of at most MaxRankLen characters of the alphabet
RankTexts == UNION { [1 .. n -> RankAlphabet] : n \in 0 .. MaxRankLen }

\* rank texts met in board texts: decodable, too short, too long, unknown
RankSamples ==
    { <<"1", "1">>, <<"a", "9", "K">>, <<"1", "0">>, <<"1", "1", "a">>, <<"x">>, << >> }

\* what follows the ranks in a board text
SideSamples == { << >>, <<" ", "a">>, <<" ", "h">>, <<" ", "x">>, <<" ">> }

\* n ranks "11", the i-th replaced by a sample, then one of the endings
BoardTexts ==
    { join([k \in 1 .. n |-> IF k = i THEN r ELSE <<"1", "1">>], RANK_SEP, 1) \o e :
        n \in 0 .. MaxRanks, i \in 1 .. MaxRanks, r \in RankSamples, e \in SideSamples }

\* a column or what stands in its place, a row number or what stands in its place
ColumnSamples == { <<"a">>, <<"f">>, <<"k">>, <<"l">>, << >> }
RowSamples ==
    { <<"0">>, <<"1">>, <<"6">>, <<"1", "1">>, <<"1", "2">>, <<"9", "9">>,
      <<"1", "0", "0">>, <<"x">>, << >> }

MoveTexts ==
    { c1 \o r1 \o c2 \o r2 :
        c1 \in ColumnSamples, r1 \in RowSamples, c2 \in ColumnSamples, r2 \in RowSamples }

\* a text handed to a decoder
InitTexts ==
    /\ board = DefaultBoard
    /\ ret = [op |-> "new"]
    /\ applied = 0
    /\ input \in RankTexts \cup BoardTexts \cup MoveTexts

\* the ranks of at most MaxRankPieces pieces
RankValues ==
    UNION { { [fields |-> [x \in Idx |-> IF x \in S THEN f[x] ELSE None]] :
                f \in [S -> Piece] } :
            S \in { T \in SUBSET Idx : Cardinality(T) <= MaxRankPieces } }

\* the boards handed to the encoders: the default board, the boards of the
\* tests, and the boards whose first rank is one of RankValues
InitValues ==
    /\ \E b \in {DefaultBoard} \cup TestBoards
                \cup { [DefaultBoard EXCEPT !.ranks =
                            [y \in Idx |-> IF y = 0 THEN r ELSE DefaultRank]] :
                        r \in RankValues },
          n \in Player : board = [b EXCEPT !.next = n]
    /\ ret = [op |-> "new"]
    /\ applied = 0
    /\ input = << >>

\* a board decoded or built by the caller, with either side to move
Init ==
    /\ \E b \in StartBoards, n \in Player : board = [b EXCEPT !.next = n]
    /\ ret = [op |-> "new"]
    /\ applied = 0
    /\ input = << >>

\* Board::default()
InitDefault ==
    /\ board = DefaultBoard
    /\ ret = [op |-> "new"]
    /\ applied = 0
    /\ input = << >>

----------------------------------------------------------------------------
(* The library calls *)

\* the elements of a Vec
elements(v) == { v[i] : i \in 1 .. Len(v) }

\* possible_moves(&board)
PossibleMoves ==
    /\ ret' = [op |-> "possible_moves", moves |-> possible_moves(board)]
    /\ UNCHANGED <<board, applied, input>>

\* board.pieces(c)
Pieces ==
    \E c \in Player :
        /\ ret' = [op |-> "pieces", color |-> c, positions |-> pieces(board, c)]
        /\ UNCHANGED <<board, applied, input>>

\* board.king_escaped()
KingEscaped ==
    /\ ret' = [op |-> "king_escaped", escaped |-> king_escaped(board)]
    /\ UNCHANGED <<board, applied, input>>

\* board.apply(&mov) for a move that possible_moves(&board) returns
ApplyGenerated ==
    /\ applied < MaxApplied
    /\ \E mov \in elements(possible_moves(board)) :
        /\ board' = apply(board, mov)
        /\ ret' = [op |-> "apply", mov |-> mov, pre |-> board, generated |-> TRUE]
    /\ applied' = applied + 1
    /\ UNCHANGED input

\* board.apply(&mov) for any move between cells of the region
ApplyAny ==
    /\ applied < MaxApplied
    /\ \E f \in Region, t \in Region :
        LET mov == Move(from_indices(f[1], f[2]), from_indices(t[1], t[2]))
        IN  /\ board' = apply(board, mov)
            /\ ret' = [op |-> "apply", mov |-> mov, pre |-> board, generated |-> FALSE]
    /\ applied' = applied + 1
    /\ UNCHANGED input

\* the process has not aborted in a decoder
Running == ~("result" \in DOMAIN ret /\ ret.result.tag = "Panic")

\* Rank::from_hnfen(input)
RankFromHnfen ==
    /\ Running
    /\ ret' = [op |-> "Rank::from_hnfen", text |-> input, result |-> Rank_from_hnfen(input)]
    /\ UNCHANGED <<board, applied, input>>

\* board = Board::from_hnfen(input), the board kept when no board is decoded
BoardFromHnfen ==
    /\ Running
    /\ ret' = [op |-> "Board::from_hnfen", text |-> input, result |-> Board_from_hnfen(input)]
    /\ board' = IF ret'.result.tag = "Some" THEN ret'.result.val ELSE board
    /\ UNCHANGED <<applied, input>>

\* Move::from_hnfen(input)
MoveFromHnfen ==
    /\ Running
    /\ ret' = [op |-> "Move::from_hnfen", text |-> input, result |-> Move_from_hnfen(input)]
    /\ UNCHANGED <<board, applied, input>>

\* input = board.ranks[y].as_hnfen()
RankAsHnfen ==
    \E y \in Idx :
        /\ input' = Rank_as_hnfen(board.ranks[y])
        /\ ret' = [op |-> "Rank::as_hnfen", rank |-> board.ranks[y], text |-> input']
        /\ UNCHANGED <<board, applied>>

\* input = board.as_hnfen()
BoardAsHnfen ==
    /\ input' = Board_as_hnfen(board)
    /\ ret' = [op |-> "Board::as_hnfen", text |-> input']
    /\ UNCHANGED <<board, applied>>

\* cells (x, y) of the moves handed to the encoder
MoveCells == { <<0, 0>>, <<10, 1>>, <<5, 9>>, <<3, 10>> }

\* input = mov.as_hnfen() for a move between two of MoveCells
MoveAsHnfen ==
    \E f \in MoveCells, t \in MoveCells :
        LET mov == Move(from_indices(f[1], f[2]), from_indices(t[1], t[2]))
        IN  /\ input' = Move_as_hnfen(mov)
            /\ ret' = [op |-> "Move::as_hnfen", mov |-> mov, text |-> input']
            /\ UNCHANGED <<board, applied>>

\* the first call on a board is board.apply of a generated move
FirstApplyGenerated == ret.op = "new" /\ ApplyGenerated

\* the first call on a board is board.apply of any move
FirstApplyAny == ret.op = "new" /\ ApplyAny

Next == PossibleMoves \/ Pieces \/ ApplyGenerated \/ ApplyAny

NextCalls == PossibleMoves \/ Pieces \/ KingEscaped

NextApply == FirstApplyGenerated \/ FirstApplyAny

NextDecode == RankFromHnfen \/ BoardFromHnfen \/ MoveFromHnfen

NextEncode == RankAsHnfen \/ BoardAsHnfen \/ MoveAsHnfen

\* play from the default starting board
Spec == InitDefault /\ [][Next]_vars

\* the queries on every start board
SpecCalls == Init /\ [][NextCalls]_vars

\* one move applied to every start board
SpecApply == Init /\ [][NextApply]_vars

\* the decoders on every text
SpecDecode == InitTexts /\ [][NextDecode]_vars

\* the encoders on every value
SpecEncode == InitValues /\ [][NextEncode]_vars

----------------------------------------------------------------------------
(* Vocabulary of the properties *)

\* the occupant of cell c = <<x, y>> of board b
at(b, c) == b.ranks[c[2]].fields[c[1]]

step(c, d) == << c[1] + vector(card[d], 1)[1], c[2] + vector(card[d], 1)[2] >>

onBoard(c) == c[1] \in Idx /\ c[2] \in Idx

special(c) == c \in { <<0, 0>>, <<0, 10>>, <<10, 0>>, <<10, 10>>, <<5, 5>> }

normal(p) == p \in {Normal(Black), Normal(White)}

\* the side a piece plays for: the King plays for the Defender
side(p) == IF p = Normal(Black) THEN Black ELSE White

\* the last call was Board::apply and it found a piece on `from`
Moved == ret.op = "apply" /\ at(ret.pre, to_indices(ret.mov.from)) # None

Fr == to_indices(ret.mov.from)
To == to_indices(ret.mov.to)
Mover == at(ret.pre, Fr)

\* the occupant of cell c once the mover is relocated, before any capture
relocated(c) ==
    IF c = To THEN Mover ELSE IF c = Fr THEN None ELSE at(ret.pre, c)

\* cell c holds a normal piece of the side opposing the mover
victim(c) == onBoard(c) /\ normal(relocated(c)) /\ side(relocated(c)) # side(Mover)

\* number of pieces on board b
count(b) == Cardinality({c \in Idx \X Idx : at(b, c) # None})

----------------------------------------------------------------------------
(* Move application *)

\* C1: a normal enemy piece adjacent to `to` is removed whenever the cell
\* beyond it is on the board and is a corner or the castle, occupied or not.
C1_SpecialCellCapture ==
    Moved => \A d \in 1 .. 4 :
        (victim(step(To, d)) /\ onBoard(step(step(To, d), d))
            /\ special(step(step(To, d), d)))
        => at(board, step(To, d)) = None

\* C2: with a non-special cell beyond it, a normal enemy piece adjacent to
\* `to` is removed exactly when the cell beyond holds a piece of the mover's
\* side (the King being a Defender piece); with no cell beyond it, it stays.
C2_CustodianOwnPiece ==
    Moved => \A d \in 1 .. 4 :
        LET adj == step(To, d)
            bey == step(adj, d)
        IN  victim(adj) =>
            /\ ~onBoard(bey) => at(board, adj) = relocated(adj)
            /\ (onBoard(bey) /\ ~special(bey)) =>
                /\ at(board, adj) \in {None, relocated(adj)}
                /\ at(board, adj) = None
                    <=> (relocated(bey) # None /\ side(relocated(bey)) = side(Mover))

\* a Defender piece took an Attacker piece against the King
C2_Witness ==
    /\ Moved
    /\ \E d \in 1 .. 4 :
        /\ victim(step(To, d))
        /\ onBoard(step(step(To, d), d))
        /\ ~special(step(step(To, d), d))
        /\ relocated(step(step(To, d), d)) = King
        /\ at(board, step(To, d)) = None

\* C3: when an Attacker piece lands next to the King, the King is removed
\* iff each of its four neighbours is on the board and is a special cell or
\* holds an Attacker piece.
C3_KingCapture ==
    (Moved /\ Mover = Normal(Black)) => \A d \in 1 .. 4 :
        LET k == step(To, d)
        IN  (onBoard(k) /\ relocated(k) = King) =>
            /\ at(board, k) \in {None, King}
            /\ at(board, k) = None
                <=> \A e \in 1 .. 4 :
                        /\ onBoard(step(k, e))
                        /\ \/ special(step(k, e))
                           \/ relocated(step(k, e)) = Normal(Black)

\* a generated Attacker move took the King
C3_Witness ==
    /\ Moved /\ Mover = Normal(Black) /\ ret.generated
    /\ \E d \in 1 .. 4 :
        /\ onBoard(step(To, d))
        /\ relocated(step(To, d)) = King
        /\ at(board, step(To, d)) = None

\* C4: after a move from an occupied cell the side to move is the opposite
\* of the mover's side, captures or not; a generated move flips the side.
C4_TurnAlternation ==
    Moved =>
        /\ board.next = opposite(side(Mover))
        /\ ret.generated => board.next = opposite(ret.pre.next)

\* a generated move captured a piece and passed the turn
C4_Witness ==
    /\ Moved /\ ret.generated
    /\ count(board) < count(ret.pre)
    /\ board.next = opposite(ret.pre.next)

\* C5: a move from an empty cell changes no cell and not the side to move.
C5_NoOpOnEmptySource ==
    (ret.op = "apply" /\ at(ret.pre, Fr) = None) => board = ret.pre

\* a move from an empty cell onto a piece, on a board of several pieces
C5_Witness ==
    /\ ret.op = "apply" /\ at(ret.pre, Fr) = None
    /\ at(ret.pre, To) # None
    /\ count(ret.pre) >= 2
    /\ board = ret.pre

----------------------------------------------------------------------------
(* Move generation and piece enumeration *)

\* the moves returned by the last possible_moves call, as pairs of cells
Returned ==
    { << to_indices(ret.moves[i].from), to_indices(ret.moves[i].to) >> :
        i \in 1 .. Len(ret.moves) }

\* the cells other than p in the row and in the column of p
line(p) == ({ <<x, p[2]>> : x \in Idx } \cup { <<p[1], y>> : y \in Idx }) \ {p}

\* the cells strictly between two cells of one row or one column
between(p, q) ==
    { c \in line(p) \cap line(q) :
        \/ c[2] = p[2] /\ c[2] = q[2]
            /\ ((p[1] < c[1] /\ c[1] < q[1]) \/ (q[1] < c[1] /\ c[1] < p[1]))
        \/ c[1] = p[1] /\ c[1] = q[1]
            /\ ((p[2] < c[2] /\ c[2] < q[2]) \/ (q[2] < c[2] /\ c[2] < p[2])) }

clear(p, q) == \A c \in between(p, q) : at(board, c) = None

\* the cells holding a piece of the side to move
Own == { c \in Idx \X Idx : at(board, c) # None /\ side(at(board, c)) = board.next }

\* pieces top, mid and bottom on (0,4), (0,5), (0,6), side n to move
column(top, mid, bottom, n) ==
    [Placed({<<0, 4>>, <<0, 5>>, <<0, 6>>},
            [c \in {<<0, 4>>, <<0, 5>>, <<0, 6>>} |->
                IF c[2] = 4 THEN top ELSE IF c[2] = 5 THEN mid ELSE bottom])
        EXCEPT !.next = n]

\* C6: no returned move passes over an occupied cell.
C6_NoJumping ==
    ret.op = "possible_moves" =>
        \A m \in Returned : \A c \in between(m[1], m[2]) : at(board, c) = None

\* C7: no returned move puts a non-king piece on a special cell; a non-king
\* piece reaches the empty cells beyond an empty castle; the King lands on
\* empty special cells; the boards of the tests yield 9, 9, 10 and 18 moves.
C7_SpecialCellLanding ==
    ret.op = "possible_moves" =>
        /\ \A m \in Returned : at(board, m[1]) # King => ~special(m[2])
        /\ \A p \in Own : \A q \in line(p) :
            (at(board, p) # King /\ <<5, 5>> \in between(p, q) /\ clear(p, q)
                /\ at(board, q) = None /\ ~special(q))
            => <<p, q>> \in Returned
        /\ \A p \in Own : \A q \in line(p) :
            (at(board, p) = King /\ special(q) /\ clear(p, q) /\ at(board, q) = None)
            => <<p, q>> \in Returned
        /\ board = column(Normal(White), Normal(Black), Normal(White), Black)
            => Len(ret.moves) = 9
        /\ board = column(Normal(Black), Normal(White), Normal(Black), White)
            => Len(ret.moves) = 9
        /\ board = column(Normal(Black), King, Normal(Black), White)
            => Len(ret.moves) = 10
        /\ \A n \in Player :
            board = [Placed({<<0, 0>>}, [c \in {<<0, 0>>} |-> Normal(n)]) EXCEPT !.next = n]
                => Len(ret.moves) = 18

\* the King between two attackers has 10 moves, one of them onto the castle
C7_Witness ==
    /\ ret.op = "possible_moves"
    /\ board = column(Normal(Black), King, Normal(Black), White)
    /\ Len(ret.moves) = 10
    /\ << <<0, 5>>, <<5, 5>> >> \in Returned

\* C8: every slide of a piece of the side to move along a clear line to an
\* empty cell (a special cell only for the King) is returned; every returned
\* move takes a piece of the side to move to an empty cell of its row or
\* column; an empty board yields no move.
C8_GeneratorComplete ==
    ret.op = "possible_moves" =>
        /\ \A p \in Own : \A q \in line(p) :
            (at(board, q) = None /\ clear(p, q) /\ (special(q) => at(board, p) = King))
            => <<p, q>> \in Returned
        /\ \A m \in Returned :
            m[1] \in Own /\ m[2] \in line(m[1]) /\ at(board, m[2]) = None
        /\ count(board) = 0 => Len(ret.moves) = 0

\* a piece slides from one edge of the board to the other
C8_Witness ==
    /\ ret.op = "possible_moves"
    /\ \E m \in Returned : m[1][1] = 0 /\ m[2][1] = 10 /\ m[1][2] = m[2][2]

\* C9: the default starting position yields 116 moves for the Attacker and
\* 60 for the Defender.
C9_DefaultMoveCounts ==
    (ret.op = "possible_moves" /\ board.ranks = DefaultBoard.ranks) =>
        Len(ret.moves) = IF board.next = Black THEN 116 ELSE 60

\* the Defender's 60 moves on the default starting position
C9_Witness ==
    /\ ret.op = "possible_moves"
    /\ board.ranks = DefaultBoard.ranks
    /\ board.next = White
    /\ Len(ret.moves) = 60

\* C10: pieces(side) holds, once each, the cells of the normal pieces of
\* that side, and the King's cell iff the side is the Defender; 24 and 13
\* positions on the default starting board.
C10_PieceOwnership ==
    ret.op = "pieces" =>
        LET cells == { to_indices(ret.positions[i]) : i \in 1 .. Len(ret.positions) }
        IN  /\ cells = { c \in Idx \X Idx :
                            \/ at(board, c) = Normal(ret.color)
                            \/ at(board, c) = King /\ ret.color = White }
            /\ Cardinality(cells) = Len(ret.positions)
            /\ board.ranks = DefaultBoard.ranks
                => Len(ret.positions) = IF ret.color = Black THEN 24 ELSE 13

\* the Defender's 13 positions on the default starting board, the King's among them
C10_Witness ==
    /\ ret.op = "pieces" /\ ret.color = White
    /\ board.ranks = DefaultBoard.ranks
    /\ Len(ret.positions) = 13
    /\ \E i \in 1 .. 13 : at(board, to_indices(ret.positions[i])) = King

----------------------------------------------------------------------------
(* Invariants of the board under Board::apply *)

\* the cells holding a King
kings(b) == { c \in Idx \X Idx : at(b, c) = King }

\* C11: a board with at most one King has at most one King after
\* Board::apply of any move between on-board cells; the call creates no
\* King: a King stands after the call only where one stood before or where
\* the call moved one to.
C11_SingleKing ==
    /\ Cardinality(kings(board)) <= 1
    /\ ret.op = "apply" =>
        /\ Cardinality(kings(board)) <= Cardinality(kings(ret.pre))
        /\ \A c \in kings(board) :
            c \in kings(ret.pre) \/ (Moved /\ Mover = King /\ c = To)

\* a King moved onto an occupied cell by a move no generator returns
C11_Witness ==
    /\ Moved /\ ~ret.generated
    /\ Mover = King /\ Fr # To
    /\ at(ret.pre, To) # None
    /\ kings(board) = {To}

----------------------------------------------------------------------------
(* The HNFEN notation *)

occupant(k) == k \in {BLACK, WHITE, KING}

\* the expanded cell count of a rank text of occupants and digits: one cell
\* for each occupant and the value of each maximal run of digits
RECURSIVE cellCount(_, _, _)
cellCount(text, i, run) ==
    IF i > Len(text) THEN run
    ELSE IF is_numeric(text[i]) THEN cellCount(text, i + 1, run * 10 + to_digit(text[i]))
    ELSE run + 1 + cellCount(text, i + 1, 0)

\* the text has a character that is neither an occupant nor a digit
unrecognized(text) ==
    \E i \in 1 .. Len(text) : ~occupant(text[i]) /\ ~is_numeric(text[i])

\* C12: Rank::from_hnfen returns None, and does not abort, for every text
\* whose expanded cell count is not 11 and for every text with an
\* unrecognized occupant character.
C12_RankDecodeFailure ==
    ret.op = "Rank::from_hnfen" =>
        ((unrecognized(ret.text) \/ cellCount(ret.text, 1, 0) # Size)
            => ret.result.tag = "None")

\* the '/'-separated rank texts of a board text: those of its first word
rankTexts(text) ==
    IF split_whitespace(text) = << >> THEN << >>
    ELSE split(split_whitespace(text)[1], RANK_SEP, 1, << >>)

\* C13: Board::from_hnfen returns None, and does not abort, for every text
\* whose number of ranks is not 11, the empty text included, and for every
\* text with a rank that Rank::from_hnfen does not decode; a board decoded
\* from a text without a side token has the Attacker to move.
C13_BoardDecodeFailure ==
    ret.op = "Board::from_hnfen" =>
        /\ (\/ Len(rankTexts(ret.text)) # Size
            \/ \E i \in 1 .. Len(rankTexts(ret.text)) :
                    Rank_from_hnfen(rankTexts(ret.text)[i]).tag # "Some")
                => ret.result.tag = "None"
        /\ (ret.result.tag = "Some" /\ Len(split_whitespace(ret.text)) = 1)
                => ret.result.val.next = Black

\* the text is a column a-k, one or two digits, a column a-k, one or two digits
MovePattern(text) ==
    \E i \in 1 .. 2, j \in 1 .. 2 :
        /\ Len(text) = 2 + i + j
        /\ is_column(text[1]) /\ is_column(text[2 + i])
        /\ \A k \in (2 .. 1 + i) \cup (3 + i .. 2 + i + j) : is_numeric(text[k])

\* C14: Move::from_hnfen returns None, and does not abort, for every text
\* that is not a column a-k, one or two digits, a column a-k, one or two
\* digits.
C14_MoveDecodeFailure ==
    (ret.op = "Move::from_hnfen" /\ ~MovePattern(ret.text))
        => ret.result.tag = "None"

\* Position::to_indices of pos computes, without overflow, a cell of the board
inRange(pos) ==
    /\ is_column(pos.column)
    /\ pos.rank \in 1 .. Size
    /\ ~to_indices_overflows(pos)
    /\ onBoard(to_indices(pos))

\* C15: both positions of every Move that Move::from_hnfen decodes have a
\* column a-k and a row 1-11, and Position::to_indices maps them to cells
\* (x, y) with 0 <= x < 11 and 0 <= y < 11.
C15_InRangePositions ==
    (ret.op = "Move::from_hnfen" /\ ret.result.tag = "Some")
        => (inRange(ret.result.val.from) /\ inRange(ret.result.val.to))

\* C16: decoding the text of a Rank, of a Board and of a Move with both
\* positions on the board returns the value that was encoded, encoding the
\* decoded value returns the text again, and the text of the default board
\* with the Attacker to move is the default starting text.
C16_RoundTrip ==
    /\ ret.op = "Rank::as_hnfen" =>
        /\ Rank_from_hnfen(ret.text) = Some(ret.rank)
        /\ Rank_as_hnfen(Rank_from_hnfen(ret.text).val) = ret.text
    /\ ret.op = "Board::as_hnfen" =>
        /\ Board_from_hnfen(ret.text) = Some(board)
        /\ Board_as_hnfen(Board_from_hnfen(ret.text).val) = ret.text
        /\ board = DefaultBoard => ret.text = DEFAULT_START_HNFEN
    /\ ret.op = "Move::as_hnfen" =>
        /\ inRange(ret.mov.from) /\ inRange(ret.mov.to)
        /\ Move_from_hnfen(ret.text) = Some(ret.mov)
        /\ Move_as_hnfen(Move_from_hnfen(ret.text).val) = ret.text

\* the rank with an attacker on its first and the King on its last field
\* is encoded as "a9K", which decodes to that rank
C16_Witness ==
    /\ ret.op = "Rank::as_hnfen"
    /\ ret.text = <<"a", "9", "K">>
    /\ ret.rank.fields[0] = Normal(Black) /\ ret.rank.fields[Size - 1] = King
    /\ Rank_from_hnfen(input) = Some(ret.rank)

----------------------------------------------------------------------------
(* The escape of the King *)

\* C17: king_escaped is true exactly when a King is on the board and its
\* cell is one of the four corners; it is false on a board without a King
\* and on a board whose King is anywhere else, the castle included.
C17_KingEscaped ==
    ret.op = "king_escaped" =>
        /\ ret.escaped \in BOOLEAN
        /\ ret.escaped <=>
            \E c \in kings(board) :
                c \in { <<0, 0>>, <<0, Size - 1>>, <<Size - 1, 0>>, <<Size - 1, Size - 1>> }
        /\ kings(board) = {} => ~ret.escaped

\* the call answers true for a King on the corner k1 of the board
C17_Witness ==
    /\ ret.op = "king_escaped" /\ ret.escaped
    /\ kings(board) = { <<Size - 1, Size - 1>> }

----------------------------------------------------------------------------
(* Safety of Board::apply *)

\* C18: Board::apply of a generated move leaves the moved piece on `to`,
\* leaves every other piece of the mover's side where it was, and a
\* Defender-side move leaves the King on the board.
C18_NoSelfCapture ==
    (Moved /\ ret.generated) =>
        /\ at(board, To) = Mover
        /\ at(board, Fr) = None
        /\ \A c \in (Idx \X Idx) \ {Fr, To} :
            (at(ret.pre, c) # None /\ side(at(ret.pre, c)) = side(Mover))
                => at(board, c) = at(ret.pre, c)
        /\ side(Mover) = White => kings(board) = { c \in Idx \X Idx : relocated(c) = King }

\* a generated move lands next to a piece of the mover's side that has
\* another piece of that side behind it, and both are still there
C18_Witness ==
    /\ Moved /\ ret.generated
    /\ \E d \in 1 .. 4 :
        LET adj == step(To, d)
            bey == step(adj, d)
        IN  /\ onBoard(bey) /\ adj # Fr
            /\ at(ret.pre, adj) # None /\ side(at(ret.pre, adj)) = side(Mover)
            /\ at(ret.pre, bey) # None /\ side(at(ret.pre, bey)) = side(Mover)
            /\ at(board, adj) = at(ret.pre, adj)
            /\ at(board, bey) = at(ret.pre, bey)

\* C19: Board::apply of a move whose `from` holds a piece changes no cell
\* other than `from`, `to` and the four cells orthogonally adjacent to `to`.
C19_Frame ==
    Moved =>
        \A c \in Idx \X Idx :
            at(board, c) # at(ret.pre, c)
                => (c = Fr \/ c = To \/ \E d \in 1 .. 4 : c = step(To, d))

\* a capture: the cell next to `to` is emptied and the flanking piece two
\* cells away from `to` stays
C19_Witness ==
    /\ Moved
    /\ \E d \in 1 .. 4 :
        LET adj == step(To, d)
            bey == step(adj, d)
        IN  /\ onBoard(bey) /\ adj # Fr /\ bey # Fr
            /\ at(ret.pre, adj) # None /\ at(board, adj) = None
            /\ at(ret.pre, bey) # None /\ at(board, bey) = at(ret.pre, bey)

\* no piece other than the King stands on a corner or on the castle
KingOnly(b) == \A c \in Idx \X Idx : special(c) => at(b, c) \in {None, King}

\* C20: the default starting board has no piece other than the King on a
\* corner or the castle, and Board::apply of a generated move keeps every
\* such board such a board.
C20_SpecialCellsKingOnly ==
    /\ (ret.op = "new" /\ board.ranks = DefaultBoard.ranks) => KingOnly(board)
    /\ (Moved /\ ret.generated /\ KingOnly(ret.pre)) => KingOnly(board)

\* a generated move of a normal piece across the empty castle
C20_Witness ==
    /\ Moved /\ ret.generated
    /\ KingOnly(ret.pre) /\ KingOnly(board)
    /\ Mover # King
    /\ <<5, 5>> \in between(Fr, To)

\* number of cells of board b holding piece p
countOf(b, p) == Cardinality({ c \in Idx \X Idx : at(b, c) = p })

\* C21: Board::apply of a generated move removes at most three pieces and
\* adds none: the number of attackers, of normal defenders and of Kings does
\* not grow, and the number of pieces drops by at most 3.
C21_BoundedCaptures ==
    (Moved /\ ret.generated) =>
        /\ countOf(board, Normal(Black)) <= countOf(ret.pre, Normal(Black))
        /\ countOf(board, Normal(White)) <= countOf(ret.pre, Normal(White))
        /\ countOf(board, King) <= countOf(ret.pre, King)
        /\ count(ret.pre) - count(board) \in 0 .. 3

\* a generated move that removes three pieces at once
C21_Witness ==
    /\ Moved /\ ret.generated
    /\ count(ret.pre) - count(board) = 3
    /\ at(board, To) = Mover

====
